---- MODULE Spec2Model ----
(***************************************************************************)
(* A model of database/db_util.py: the bulk insert insert_db, the query    *)
(* selection of pull_data (get_query) and the CRUD class Database, over an *)
(* sqlite3 file holding one table.                                         *)
(*                                                                         *)
(* Python strings are sequences of one-character strings, so that slicing  *)
(* (query[:len(query) - 3]), concatenation and date parsing are computed   *)
(* character by character.                                                 *)
(***************************************************************************)
EXTENDS Integers, Sequences, FiniteSets, TLC

VARIABLES
    file,       \* the committed contents of the table in the database file
    conn,       \* Database.conn: "none" (None), "open" or "closed"
    inTxn,      \* whether Database.conn has an open (uncommitted) transaction
    pending,    \* the table as Database.conn sees it inside its transaction
    args,       \* the arguments of the call under study (pure-function specs)
    ret         \* the outcome of the last call: the exception that left it, the
                \* value returned, the lines printed, insert_db's local `conn`

vars == <<file, conn, inTxn, pending, args, ret>>

\* Python's None, kept apart from every string
None == <<"None">>

(***************************************************************************)
(* Characters and strings                                                  *)
(***************************************************************************)
Digits == <<"0", "1", "2", "3", "4", "5", "6", "7", "8", "9">>

IsDigit(c) == \E k \in 1..Len(Digits) : Digits[k] = c

DigitVal(c) == (CHOOSE k \in 1..Len(Digits) : Digits[k] = c) - 1

DigitChar(n) == Digits[n + 1]

\* s[a..b] of a string, empty when the range is empty
Slice(s, a, b) == IF a > b THEN <<>> ELSE SubSeq(s, a, b)

\* zero-padded decimal of width 2 (strftime's %m and %d)
Pad2(n) == <<DigitChar(n \div 10), DigitChar(n % 10)>>

\* zero-padded decimal of width 4
Pad4(n) ==
    <<DigitChar(n \div 1000), DigitChar((n \div 100) % 10),
      DigitChar((n \div 10) % 10), DigitChar(n % 10)>>

\* decimal without padding, for 1 <= n <= 9999
RECURSIVE Dec(_)
Dec(n) == IF n < 10 THEN <<DigitChar(n)>> ELSE Dec(n \div 10) \o <<DigitChar(n % 10)>>

(***************************************************************************)
(* datetime.strptime(image_date, '%Y%m%d')                                 *)
(*                                                                         *)
(* The format compiles to the regular expression                           *)
(*   (\d\d\d\d)(1[0-2]|0[1-9]|[1-9])(3[01]|[12]\d|0[1-9]|[1-9]| [1-9])     *)
(* matched at the start of the string, alternatives tried in order with    *)
(* backtracking; the whole string must be consumed, and the fields must    *)
(* form a date of the calendar (year >= 1).                                *)
(***************************************************************************)
\* the month alternatives that match at position p, in the order tried
MonthAlts(s, p) ==
    (IF p + 1 <= Len(s)
        /\ (  (s[p] = "1" /\ s[p + 1] \in {"0", "1", "2"})
           \/ (s[p] = "0" /\ IsDigit(s[p + 1]) /\ s[p + 1] # "0"))
     THEN <<[v |-> 10 * DigitVal(s[p]) + DigitVal(s[p + 1]), nx |-> p + 2]>>
     ELSE <<>>)
    \o
    (IF p <= Len(s) /\ IsDigit(s[p]) /\ s[p] # "0"
     THEN <<[v |-> DigitVal(s[p]), nx |-> p + 1]>>
     ELSE <<>>)

\* the day alternative that matches at position p: the first of the five
DayAlts(s, p) ==
    IF p + 1 <= Len(s)
       /\ (  (s[p] = "3" /\ s[p + 1] \in {"0", "1"})
          \/ (s[p] \in {"1", "2"} /\ IsDigit(s[p + 1]))
          \/ (s[p] = "0" /\ IsDigit(s[p + 1]) /\ s[p + 1] # "0"))
    THEN <<[v |-> 10 * DigitVal(s[p]) + DigitVal(s[p + 1]), nx |-> p + 2]>>
    ELSE IF p <= Len(s) /\ IsDigit(s[p]) /\ s[p] # "0"
    THEN <<[v |-> DigitVal(s[p]), nx |-> p + 1]>>
    ELSE IF p + 1 <= Len(s) /\ s[p] = " " /\ IsDigit(s[p + 1]) /\ s[p + 1] # "0"
    THEN <<[v |-> DigitVal(s[p + 1]), nx |-> p + 2]>>
    ELSE <<>>

IsLeap(y) == (y % 4 = 0 /\ y % 100 # 0) \/ y % 400 = 0

DaysInMonth(y, m) ==
    IF m = 2 THEN (IF IsLeap(y) THEN 29 ELSE 28)
    ELSE IF m \in {4, 6, 9, 11} THEN 30 ELSE 31

NoDate == [ok |-> FALSE, exc |-> "ValueError", y |-> 0, m |-> 0, d |-> 0]

strptime(s) ==
    IF s = None THEN [NoDate EXCEPT !.exc = "TypeError"]
    ELSE IF Len(s) < 4 \/ \E k \in 1..4 : ~IsDigit(s[k]) THEN NoDate
    ELSE
        LET y    == 1000 * DigitVal(s[1]) + 100 * DigitVal(s[2])
                    + 10 * DigitVal(s[3]) + DigitVal(s[4])
            ms   == MonthAlts(s, 5)
            \* the first month alternative after which a day matches
            good == {k \in 1..Len(ms) : DayAlts(s, ms[k].nx) # <<>>}
        IN  IF good = {} THEN NoDate
            ELSE
                LET k == CHOOSE j \in good : \A i \in good : j <= i
                    m == ms[k].v
                    dd == DayAlts(s, ms[k].nx)[1]
                IN  IF dd.nx # Len(s) + 1 THEN NoDate      \* unconverted data remains
                    ELSE IF y < 1 THEN NoDate              \* year 0 is out of range
                    ELSE IF dd.v > DaysInMonth(y, m) THEN NoDate
                    ELSE [ok |-> TRUE, exc |-> "none", y |-> y, m |-> m, d |-> dd.v]

(***************************************************************************)
(* .strftime('%Y-%m-%d').  %m and %d are zero-padded to two digits.  %Y is *)
(* handed to the platform's C library: four digits for a year of 1000 or   *)
(* more; for an earlier year the C library decides whether the year is     *)
(* zero-padded (`padY`) or printed as it is (glibc: '1-01-01').            *)
(***************************************************************************)
strftime(dt, padY) ==
    (IF dt.y >= 1000 \/ padY THEN Pad4(dt.y) ELSE Dec(dt.y))
    \o <<"-">> \o Pad2(dt.m) \o <<"-">> \o Pad2(dt.d)

(***************************************************************************)
(* The query templates of config.config (select_from_table_commands): one  *)
(* text per name, the date templates with a single {} placeholder.         *)
(***************************************************************************)
SELECT_CMD(name) ==
    CASE name = "select_all" -> <<"A">>
      [] name = "select_images" -> <<"I", "=", "'", "{", "}", "'">>
      [] name = "select_images_filtered_size" -> <<"F", "=", "'", "{", "}", "'">>

SelectNames == {"select_all", "select_images", "select_images_filtered_size"}

\* str.format with one positional argument: the first {} is replaced
Format(t, a) ==
    LET at == {k \in 1..Len(t) - 1 : t[k] = "{" /\ t[k + 1] = "}"}
    IN  IF at = {} THEN t
        ELSE LET k == CHOOSE j \in at : \A i \in at : j <= i
             IN  Slice(t, 1, k - 1) \o a \o Slice(t, k + 2, Len(t))

(***************************************************************************)
(* pull_data.get_query                                                     *)
(***************************************************************************)
\* a returned value: None, a text (a query) or a list of row tuples
ValNone == [none |-> TRUE, text |-> <<>>, rows |-> <<>>]
ValText(s) == [none |-> FALSE, text |-> s, rows |-> <<>>]
ValRows(r) == [none |-> FALSE, text |-> <<>>, rows |-> r]

Ret(op, exc, val, out) == [op |-> op, exc |-> exc, val |-> val, out |-> out, conn |-> "n/a"]

NoRet == Ret("none", "none", ValNone, <<>>)

\* get_query with the date substituted as it was given, not reformatted
get_query_noformat(image_date, filtered_size, all, padY) ==
    IF all
    THEN Ret("get_query", "none", ValText(SELECT_CMD("select_all")), <<>>)
    ELSE IF ~strptime(image_date).ok
    THEN Ret("get_query", "UnboundLocalError", ValNone, <<>>)
    ELSE Ret("get_query", "none",
             ValText(Format(SELECT_CMD(IF filtered_size THEN "select_images_filtered_size"
                                       ELSE "select_images"), image_date)), <<>>)

get_query(image_date, filtered_size, all, padY) ==
    IF ~all
    THEN
        LET dt == strptime(image_date)
            size_suffix == IF filtered_size THEN "_filtered_size" ELSE ""
            name == "select_images" \o size_suffix
        IN  IF ~dt.ok
            \* strptime raised inside the try: the bare except runs, and its
            \* f-string reads `date`, which was never assigned
            THEN Ret("get_query", "UnboundLocalError", ValNone, <<>>)
            ELSE IF name \notin SelectNames
            \* the lookup failed after `date` was assigned
            THEN Ret("get_query", "ValueError", ValNone, <<>>)
            ELSE Ret("get_query", "none",
                     ValText(Format(SELECT_CMD(name), strftime(dt, padY))), <<>>)
    ELSE Ret("get_query", "none", ValText(SELECT_CMD("select_all")), <<>>)

(***************************************************************************)
(* The table and the SQL statements the sqlite3 engine is handed.          *)
(*                                                                         *)
(* The table `t` has an integer primary key `i` and an integer column `n`; *)
(* its contents are a set of rows with distinct keys.  A statement is the  *)
(* text the code built; the engine splits it at blanks and parses it.      *)
(***************************************************************************)
MaxId == 2
MaxVal == 2
MaxRows == 2

Ids == 1..MaxId
Vals == 0..MaxVal
Rows == [i : Ids, n : Vals]

TABLE_NAME == <<"t">>
ColI == <<"i">>
ColN == <<"n">>
Cols == {ColI, ColN}

kUPDATE == <<"U", "P", "D", "A", "T", "E">>
kSET == <<"S", "E", "T">>
kWHERE == <<"W", "H", "E", "R", "E">>
kDELETE == <<"D", "E", "L", "E", "T", "E">>
kFROM == <<"F", "R", "O", "M">>
kSELECT == <<"S", "E", "L", "E", "C", "T">>
kINSERT == <<"I", "N", "S", "E", "R", "T">>
kINTO == <<"I", "N", "T", "O">>
kVALUES == <<"V", "A", "L", "U", "E", "S">>
kParams == <<"(", "?", ",", "?", ")">>
Blank == <<" ">>

\* str(k) of a small non-negative integer
Str(k) == IF k < 10 THEN <<DigitChar(k)>> ELSE <<DigitChar(k \div 10), DigitChar(k % 10)>>

\* the blank-separated words of a statement
RECURSIVE Words(_, _, _)
Words(s, k, cur) ==
    IF k > Len(s) THEN (IF cur = <<>> THEN <<>> ELSE <<cur>>)
    ELSE IF s[k] = " "
    THEN (IF cur = <<>> THEN <<>> ELSE <<cur>>) \o Words(s, k + 1, <<>>)
    ELSE Words(s, k + 1, Append(cur, s[k]))

Tokens(s) == Words(s, 1, <<>>)

IsNumber(w) == Len(w) \in {1, 2} /\ \A k \in 1..Len(w) : IsDigit(w[k])

NumVal(w) == IF Len(w) = 1 THEN DigitVal(w[1]) ELSE 10 * DigitVal(w[1]) + DigitVal(w[2])

ColVal(r, c) == IF c = ColI THEN r.i ELSE r.n

\* an expression of a SET item: <number>, <column> or <column> + <number>
IsExpr(ws) ==
    \/ Len(ws) = 1 /\ (IsNumber(ws[1]) \/ ws[1] \in Cols)
    \/ Len(ws) = 3 /\ ws[1] \in Cols /\ ws[2] = <<"+">> /\ IsNumber(ws[3])

EvalExpr(ws, r) ==
    IF Len(ws) = 1
    THEN (IF IsNumber(ws[1]) THEN NumVal(ws[1]) ELSE ColVal(r, ws[1]))
    ELSE ColVal(r, ws[1]) + NumVal(ws[3])

\* the SET list: items <column> = <expression> separated by commas
RECURSIVE ParseSet(_)
ParseSet(ws) ==
    LET commas == {k \in 1..Len(ws) : ws[k] = <<",">>}
        e    == IF commas = {} THEN Len(ws) + 1
                ELSE CHOOSE k \in commas : \A j \in commas : k <= j
        item == Slice(ws, 1, e - 1)
        good == /\ Len(item) >= 3
                /\ item[1] \in Cols
                /\ item[2] = <<"=">>
                /\ IsExpr(Slice(item, 3, Len(item)))
    IN  IF ~good THEN [ok |-> FALSE, items |-> <<>>]
        ELSE LET it == [col |-> item[1], expr |-> Slice(item, 3, Len(item))]
             IN  IF commas = {} THEN [ok |-> TRUE, items |-> <<it>>]
                 ELSE LET rest == ParseSet(Slice(ws, e + 1, Len(ws)))
                      IN  [ok |-> rest.ok, items |-> <<it>> \o rest.items]

\* WHERE <column> = <number>, as three words
IsWhere(ws) ==
    Len(ws) = 4 /\ ws[1] = kWHERE /\ ws[2] \in Cols /\ ws[3] = <<"=">> /\ IsNumber(ws[4])

Matches(r, ws) == ColVal(r, ws[2]) = NumVal(ws[4])

\* the last item that assigns column c decides its value (else unchanged)
NewVal(items, c, r) ==
    LET at == {k \in 1..Len(items) : items[k].col = c}
    IN  IF at = {} THEN ColVal(r, c)
        ELSE EvalExpr(items[CHOOSE k \in at : \A j \in at : j <= k].expr, r)

\* the matched rows rewritten one by one in key order; a new key that another
\* row holds at that moment fails the statement (UNIQUE constraint failed).
\* `over`: a value left the model's range of keys and values.
RECURSIVE UpdateRows(_, _, _)
UpdateRows(tbl, hit, items) ==
    IF hit = {} THEN [ok |-> TRUE, over |-> FALSE, tbl |-> tbl]
    ELSE
        LET r == CHOOSE a \in hit : \A b \in hit : a.i <= b.i
            i2 == NewVal(items, ColI, r)
            n2 == NewVal(items, ColN, r)
        IN  IF i2 # r.i /\ \E o \in tbl : o.i = i2
            THEN [ok |-> FALSE, over |-> FALSE, tbl |-> tbl]
            ELSE IF i2 \notin Ids \/ n2 \notin Vals
            THEN [ok |-> FALSE, over |-> TRUE, tbl |-> tbl]
            ELSE UpdateRows((tbl \ {r}) \cup {[i |-> i2, n |-> n2]}, hit \ {r}, items)

Failed(tbl) == [ok |-> FALSE, over |-> FALSE, tbl |-> tbl, rows |-> <<>>, dml |-> FALSE]

\* UPDATE <table> SET <items> WHERE <column> = <number>
ExecUpdate(tbl, ws) ==
    LET wh == {k \in 1..Len(ws) : ws[k] = kWHERE}
    IN  IF Len(ws) < 4 \/ ws[2] # TABLE_NAME \/ ws[3] # kSET \/ wh = {} THEN Failed(tbl)
        ELSE
            LET w  == CHOOSE k \in wh : \A j \in wh : k <= j
                st == ParseSet(Slice(ws, 4, w - 1))
                cond == Slice(ws, w, Len(ws))
            IN  IF ~st.ok \/ ~IsWhere(cond) THEN Failed(tbl)
                ELSE
                    LET u == UpdateRows(tbl, {r \in tbl : Matches(r, cond)}, st.items)
                    IN  IF u.over THEN [Failed(tbl) EXCEPT !.over = TRUE]
                        ELSE IF ~u.ok THEN Failed(tbl)
                        ELSE [ok |-> TRUE, over |-> FALSE, tbl |-> u.tbl, rows |-> <<>>,
                              dml |-> TRUE]

\* DELETE FROM <table> WHERE <column> = <number>
ExecDelete(tbl, ws) ==
    IF Len(ws) # 7 \/ ws[2] # kFROM \/ ws[3] # TABLE_NAME \/ ~IsWhere(Slice(ws, 4, 7))
    THEN Failed(tbl)
    ELSE [ok |-> TRUE, over |-> FALSE, rows |-> <<>>, dml |-> TRUE,
          tbl |-> {r \in tbl : ~Matches(r, Slice(ws, 4, 7))}]

\* the rows of a table in key order, projected on the columns asked for
RECURSIVE Fetch(_, _)
Fetch(rows, cols) ==
    IF rows = {} THEN <<>>
    ELSE LET r == CHOOSE a \in rows : \A b \in rows : a.i <= b.i
         IN  <<(IF cols = <<"*">> THEN <<r.i, r.n>> ELSE <<ColVal(r, cols)>>)>>
             \o Fetch(rows \ {r}, cols)

\* SELECT <* or column> FROM <table> [WHERE <column> = <number>]
ExecSelect(tbl, ws) ==
    IF Len(ws) \notin {4, 8} \/ ws[2] \notin (Cols \cup {<<"*">>})
       \/ ws[3] # kFROM \/ ws[4] # TABLE_NAME
       \/ (Len(ws) = 8 /\ ~IsWhere(Slice(ws, 5, 8)))
    THEN Failed(tbl)
    ELSE [ok |-> TRUE, over |-> FALSE, tbl |-> tbl, dml |-> FALSE,
          rows |-> Fetch(IF Len(ws) = 4 THEN tbl
                         ELSE {r \in tbl : Matches(r, Slice(ws, 5, 8))}, ws[2])]

\* cursor.execute(query): a statement against the table the connection sees
Exec(tbl, q) ==
    LET ws == Tokens(q)
    IN  IF ws = <<>> THEN Failed(tbl)
        ELSE IF ws[1] = kUPDATE THEN ExecUpdate(tbl, ws)
        ELSE IF ws[1] = kDELETE THEN ExecDelete(tbl, ws)
        ELSE IF ws[1] = kSELECT THEN ExecSelect(tbl, ws)
        ELSE Failed(tbl)

\* the rows of `data` appended one by one; a key already present stops it
\* with an IntegrityError, the rows before it already in the transaction
RECURSIVE Append_rows(_, _)
Append_rows(tbl, data) ==
    IF data = <<>> THEN [ok |-> TRUE, tbl |-> tbl]
    ELSE IF \E r \in tbl : r.i = data[1].i THEN [ok |-> FALSE, tbl |-> tbl]
    ELSE Append_rows(tbl \cup {data[1]}, Tail(data))

\* cursor.executemany(query, data) with INSERT INTO <table> VALUES (?,?)
Executemany(tbl, q, data) ==
    LET ws == Tokens(q)
    IN  IF ws # <<kINSERT, kINTO, TABLE_NAME, kVALUES, kParams>> THEN Failed(tbl)
        ELSE LET a == Append_rows(tbl, data)
             IN  [ok |-> a.ok, over |-> FALSE, tbl |-> a.tbl, rows |-> <<>>, dml |-> TRUE]

(***************************************************************************)
(* Connections.  The file holds the committed table.  A connection sees    *)
(* the file until its first INSERT, UPDATE or DELETE, which opens a        *)
(* transaction (sqlite3's implicit BEGIN) holding the write lock; from     *)
(* then on it sees `pending`, until a rollback or a close discards it.     *)
(***************************************************************************)
GoodPath == "db"
BadPath == "nodir/db"
Paths == {GoodPath, BadPath}

\* what Database.conn reads
View == IF conn = "open" /\ inTxn THEN pending ELSE file

\* what a connection opened now on the same file reads
FreshRead == file

\* the data frames and row lists handed in: up to MaxRows new rows
RECURSIVE SeqsUpTo(_, _)
SeqsUpTo(S, k) ==
    IF k = 0 THEN {<<>>}
    ELSE LET shorter == SeqsUpTo(S, k - 1)
         IN  shorter \cup {Append(q, x) : q \in {t \in shorter : Len(t) = k - 1}, x \in S}

NewRows == {[i |-> k, n |-> 0] : k \in Ids}
Frames == SeqsUpTo(NewRows, MaxRows)

(***************************************************************************)
(* Database.__init__ / create_connection                                   *)
(***************************************************************************)
create_connection(db_path) ==
    IF db_path = GoodPath
    THEN [conn |-> "open", out |-> <<"SUCCESS: Table Connected">>]
    ELSE [conn |-> "none", out |-> <<"unable to open database file">>]

\* a new instance, the previous one having been closed or never connected
Database_init(db_path) ==
    /\ conn # "open"
    /\ conn' = create_connection(db_path).conn
    /\ inTxn' = FALSE
    /\ pending' = {}
    /\ ret' = Ret("__init__", "none", ValNone, create_connection(db_path).out)
    /\ UNCHANGED <<file, args>>

(***************************************************************************)
(* Database.close_connection                                               *)
(***************************************************************************)
\* a close that commits the open transaction first
close_connection_commits ==
    /\ IF conn # "none"
       THEN /\ conn' = "closed"
            /\ file' = View
       ELSE UNCHANGED <<conn, file>>
    /\ inTxn' = FALSE
    /\ pending' = {}
    /\ ret' = Ret("close_connection", "none", ValNone, <<>>)
    /\ UNCHANGED args

close_connection ==
    /\ IF conn # "none"
       THEN conn' = "closed"          \* an open transaction is discarded
       ELSE UNCHANGED conn
    /\ inTxn' = FALSE
    /\ pending' = {}
    /\ ret' = Ret("close_connection", "none", ValNone, <<>>)
    /\ UNCHANGED <<file, args>>

(***************************************************************************)
(* Database.execute, create and read share one shape:                      *)
(*     try: cur = self.conn.cursor(); cur.execute(...)                     *)
(*     except: print(...); self.conn.rollback()                            *)
(* `res` is what the engine answers on an open connection.                 *)
(***************************************************************************)
\* the exception self.conn.<method>() raises when the handle is not open
HandleError == IF conn = "none" THEN "AttributeError" ELSE "ProgrammingError"

TryExcept(op, msg, res) ==
    /\ conn = "open" => ~res.over
    /\ IF conn # "open"
       \* cursor() raises, the except clause prints, and its rollback() raises
       \* the same error again: that one leaves the method
       THEN /\ ret' = Ret(op, HandleError, ValNone, <<msg>>)
            /\ UNCHANGED <<inTxn, pending>>
       ELSE IF res.ok
       THEN /\ ret' = Ret(op, "none", IF op = "read" THEN ValRows(res.rows) ELSE ValNone, <<>>)
            /\ IF res.dml
               THEN inTxn' = TRUE /\ pending' = res.tbl
               ELSE UNCHANGED <<inTxn, pending>>
       \* the statement failed: print, then roll the open transaction back
       ELSE /\ ret' = Ret(op, "none", ValNone, <<msg>>)
            /\ inTxn' = FALSE
            /\ pending' = {}
    /\ UNCHANGED <<file, conn, args>>

execute(operation, query) ==
    TryExcept(operation, "Error in " \o operation \o " operation", Exec(View, query))

create(query, data) ==
    TryExcept("create", "error in insert operation", Executemany(View, query, data))

ReadQuery(table_name, cols_needed, conditions) ==
    IF conditions = None
    THEN kSELECT \o Blank \o cols_needed \o Blank \o kFROM \o Blank \o table_name
    ELSE kSELECT \o Blank \o cols_needed \o Blank \o kFROM \o Blank \o table_name
         \o Blank \o conditions

read(table_name, cols_needed, conditions) ==
    TryExcept("read", "error in select operation",
              Exec(View, ReadQuery(table_name, cols_needed, conditions)))

(***************************************************************************)
(* Database.update: the statement is built by concatenation, one           *)
(* "<key> <value> , " per entry of new_vals, and the last three characters *)
(* are cut before the WHERE clause is added.  new_vals is the dict as the  *)
(* sequence of its (key, value) entries, keys distinct, the texts being    *)
(* str(key) and str(value).                                                *)
(***************************************************************************)
Separator == <<" ", ",", " ">>

RECURSIVE SetItems(_)
SetItems(new_vals) ==
    IF new_vals = <<>> THEN <<>>
    ELSE new_vals[1][1] \o Blank \o new_vals[1][2] \o Separator \o SetItems(Tail(new_vals))

\* a cut of two characters, the length of ", "
Trim2(query) == Slice(query, 1, Len(query) - 2)

\* query[:len(query) - 3]
Trim(query) == Slice(query, 1, Len(query) - 3)

WhereClause(prim_key_id) ==
    Blank \o kWHERE \o Blank \o prim_key_id[1] \o <<" ", "=", " ">> \o prim_key_id[2]

UpdateQuery(table_name, new_vals, prim_key_id) ==
    Trim(kUPDATE \o Blank \o table_name \o Blank \o kSET \o Blank \o SetItems(new_vals))
    \o WhereClause(prim_key_id)

update(table_name, new_vals, prim_key_id) ==
    execute("update", UpdateQuery(table_name, new_vals, prim_key_id))

DeleteQuery(table_name, prim_key_id) ==
    kDELETE \o Blank \o kFROM \o Blank \o table_name \o WhereClause(prim_key_id)

delete(table_name, prim_key_id) ==
    execute("delete", DeleteQuery(table_name, prim_key_id))

(***************************************************************************)
(* insert_db.  df is a data frame (its rows) or something that is not one; *)
(* `fault` is a failure of the engine during the append or the commit      *)
(* (disk, I/O), `libCommits` whether DataFrame.to_sql commits its own      *)
(* append before it returns (the library decides).                         *)
(***************************************************************************)
NotAFrame == [frame |-> FALSE, rows |-> <<>>]
Frame(rows) == [frame |-> TRUE, rows |-> rows]
Faults == {"none", "append", "commit"}

MsgConnected == "a. Connected to Sqlite"
MsgInserted == "b. Inserted into Database"
MsgFailed == "Failed to Insert into table"
MsgClosed == "c. Sqlite connection is closed"

SqliteErrors == {"OperationalError", "IntegrityError"}

\* df.to_sql(name=table_name, con=conn, if_exists='append', index=False):
\* the exception it raises ("none": it returned) and the rows in the table
to_sql(df, fault) ==
    IF ~df.frame THEN [exc |-> "AttributeError", tbl |-> file]
    ELSE IF fault = "append" THEN [exc |-> "OperationalError", tbl |-> file]
    \* another connection holds the write lock: database is locked
    ELSE IF df.rows # <<>> /\ conn = "open" /\ inTxn
    THEN [exc |-> "OperationalError", tbl |-> file]
    ELSE LET a == Append_rows(file, df.rows)
         IN  IF a.ok THEN [exc |-> "none", tbl |-> a.tbl]
             ELSE [exc |-> "IntegrityError", tbl |-> file]

\* a commit that is left out: the file keeps what was committed before
conn_commit_skipped(committed, appended, fault) ==
    [exc |-> "none", file |-> committed]

\* conn.commit(): the appended rows reach the file, unless the engine fails
conn_commit(committed, appended, fault) ==
    IF fault = "commit" THEN [exc |-> "OperationalError", file |-> committed]
    ELSE [exc |-> "none", file |-> appended]

\* the try block and its except clause: the local `conn`, the file, the
\* exception still in flight and the lines printed when `finally` is entered
insert_db_try(df, db_path, fault, libCommits) ==
    IF db_path # GoodPath
    \* sqlite3.connect raised an sqlite3.Error: caught, `conn` never assigned
    THEN [conn |-> "unbound", file |-> file, exc |-> "none", out |-> <<MsgFailed>>]
    ELSE
        LET t == to_sql(df, fault)
        IN  IF t.exc \in SqliteErrors
            THEN [conn |-> "open", file |-> file, exc |-> "none",
                  out |-> <<MsgConnected, MsgFailed>>]
            ELSE IF t.exc # "none"
            THEN [conn |-> "open", file |-> file, exc |-> t.exc, out |-> <<MsgConnected>>]
            ELSE
                LET c == conn_commit(IF libCommits THEN t.tbl ELSE file, t.tbl, fault)
                IN  IF c.exc # "none"
                    THEN [conn |-> "open", file |-> c.file, exc |-> "none",
                          out |-> <<MsgConnected, MsgInserted, MsgFailed>>]
                    ELSE [conn |-> "closed", file |-> c.file, exc |-> "none",
                          out |-> <<MsgConnected, MsgInserted>>]

\* a finally clause that only reports
insert_db_finally_noclose(r) ==
    IF r.conn = "unbound"
    THEN [r EXCEPT !.exc = "UnboundLocalError"]
    ELSE [r EXCEPT !.out = Append(r.out, MsgClosed)]

\* finally: if conn: conn.close(); print(...)
insert_db_finally(r) ==
    IF r.conn = "unbound"
    \* reading the unassigned local raises: that error leaves the function
    THEN [r EXCEPT !.exc = "UnboundLocalError"]
    ELSE [r EXCEPT !.conn = "closed", !.out = Append(r.out, MsgClosed)]

insert_db(df, db_path, fault, libCommits) ==
    LET r == insert_db_finally(insert_db_try(df, db_path, fault, libCommits))
    IN  /\ file' = r.file
        /\ ret' = [Ret("insert_db", r.exc, ValNone, r.out) EXCEPT !.conn = r.conn]
        /\ UNCHANGED <<conn, inTxn, pending, args>>

(***************************************************************************)
(* The callers' inputs                                                     *)
(***************************************************************************)
\* value texts: "= <number>", one that reads the column, and a bare value
FragAssign(k) == <<"=", " ">> \o Str(k)
FragIncr == <<"=", " ", "n", " ", "+", " ", "1">>
FragBare == <<"1">>
Fragments == {FragAssign(k) : k \in Vals} \cup {FragIncr, FragBare}

NewValsDb ==
    {<<>>}
    \cup {<< <<ColN, f>> >> : f \in Fragments}
    \cup {<< <<ColI, FragAssign(MaxId)>> >>}
    \cup {<< <<ColN, FragAssign(1)>>, <<ColI, FragAssign(MaxId)>> >>}

PrimKeys == {<<ColI, Str(k)>> : k \in Ids}

INSERT_STMT == kINSERT \o Blank \o kINTO \o Blank \o TABLE_NAME \o Blank \o kVALUES
               \o Blank \o kParams
BadStmt == kINSERT \o Blank \o kINTO
RawQueries == {BadStmt} \cup {DeleteQuery(TABLE_NAME, pk) : pk \in PrimKeys}

ReadArgs ==
    {<<TABLE_NAME, <<"*">>, None>>,
     <<TABLE_NAME, ColN, Tail(WhereClause(<<ColI, Str(1)>>))>>,
     <<<<"x">>, <<"*">>, None>>}

(***************************************************************************)
(* The database: one Database instance at a time, and insert_db calls      *)
(***************************************************************************)
Init ==
    /\ file = {}
    /\ \E p \in Paths : conn = create_connection(p).conn
    /\ inTxn = FALSE
    /\ pending = {}
    /\ args = <<>>
    /\ ret = NoRet

Next ==
    \/ \E p \in Paths : Database_init(p)
    \/ close_connection
    \/ \E q \in RawQueries : execute("custom", q)
    \/ \E d \in Frames : create(INSERT_STMT, d)
    \/ create(BadStmt, <<>>)
    \/ \E a \in ReadArgs : read(a[1], a[2], a[3])
    \/ \E nv \in NewValsDb, pk \in PrimKeys : update(TABLE_NAME, nv, pk)
    \/ \E pk \in PrimKeys : delete(TABLE_NAME, pk)
    \/ \E d \in Frames, f \in Faults, lc \in BOOLEAN :
           insert_db(Frame(d), GoodPath, f, lc)
    \/ insert_db(NotAFrame, GoodPath, "none", TRUE)
    \/ insert_db(Frame(<<>>), BadPath, "none", TRUE)

Spec == Init /\ [][Next]_vars

(***************************************************************************)
(* pull_data's query selection on its own: the arguments are drawn in the  *)
(* initial state and get_query is applied to them once.                    *)
(***************************************************************************)
YearTexts ==
    {<<"2", "0", "2", "3">>, <<"2", "0", "2", "0">>, <<"1", "0", "0", "0">>,
     <<"0", "9", "9", "9">>, <<"0", "0", "0", "1">>, <<"0", "0", "0", "0">>,
     <<"2", "0", "2">>}
MonthTexts ==
    {<<"0", "1">>, <<"0", "2">>, <<"1", "2">>, <<"1", "3">>, <<"0", "0">>, <<"1">>, <<"2">>}
DayTexts ==
    {<<"0", "1">>, <<"2", "9">>, <<"3", "0">>, <<"3", "1">>, <<"3", "2">>, <<"0", "0">>,
     <<"1">>, <<" ", "1">>}
SepTexts == {<<>>, <<"-">>}

DateTexts ==
    {y \o s1 \o m \o s2 \o d :
        y \in YearTexts, s1 \in SepTexts, m \in MonthTexts, s2 \in SepTexts, d \in DayTexts}
    \cup {None, <<>>, <<"2", "0", "2", "3", "0", "1", "0", "1", " ">>}

PullArgs == [image_date : DateTexts, all : BOOLEAN, filtered_size : BOOLEAN]

Idle ==
    /\ file = {}
    /\ conn = "none"
    /\ inTxn = FALSE
    /\ pending = {}
    /\ ret = NoRet

InitPull == Idle /\ args \in PullArgs

pull_data_get_query ==
    /\ ret.op = "none"
    /\ \E padY \in BOOLEAN :
           ret' = get_query(args.image_date, args.filtered_size, args.all, padY)
    /\ UNCHANGED <<file, conn, inTxn, pending, args>>

NextPull == pull_data_get_query

SpecPull == InitPull /\ [][NextPull]_vars

(***************************************************************************)
(* update's statement text on its own, for mappings of up to MaxItems      *)
(* entries with keys and values of several lengths.                        *)
(***************************************************************************)
MaxItems == 2

KeyTexts == {<<"n">>, <<"l", "b", "l">>, <<"i", "d">>}
ValueTexts == {<<"=", " ", "5">>, FragIncr, <<"5">>, <<>>}

DistinctKeys(m) == \A a, b \in 1..Len(m) : m[a][1] = m[b][1] => a = b

Mappings == {m \in SeqsUpTo(KeyTexts \X ValueTexts, MaxItems) : DistinctKeys(m)}

UpdateArgs ==
    [table_name : {TABLE_NAME, <<"i", "m", "g">>},
     new_vals : Mappings,
     prim_key_id : {<<ColI, Str(1)>>, <<<<"i", "d">>, Str(12)>>}]

InitUpdate == Idle /\ args \in UpdateArgs

update_query ==
    /\ ret.op = "none"
    /\ ret' = Ret("update_query", "none",
                  ValText(UpdateQuery(args.table_name, args.new_vals, args.prim_key_id)),
                  <<>>)
    /\ UNCHANGED <<file, conn, inTxn, pending, args>>

NextUpdate == update_query

SpecUpdate == InitUpdate /\ [][NextUpdate]_vars

(***************************************************************************)
(* Properties                                                              *)
(***************************************************************************)
Printed(msg, out) == \E k \in 1..Len(out) : out[k] = msg

\* the calls on a Database instance that hand a statement to the engine
DbOps == {"custom", "create", "read", "update", "delete"}

DbCall ==
    \/ \E q \in RawQueries : execute("custom", q)
    \/ \E d \in Frames : create(INSERT_STMT, d)
    \/ create(BadStmt, <<>>)
    \/ \E a \in ReadArgs : read(a[1], a[2], a[3])
    \/ \E nv \in NewValsDb, pk \in PrimKeys : update(TABLE_NAME, nv, pk)
    \/ \E pk \in PrimKeys : delete(TABLE_NAME, pk)

\* the call printed its error line: its statement failed
StatementFailed(r) == r.op \in DbOps /\ r.out # <<>>

(* C1: when all is false and image_date does not parse as YYYYMMDD (a      *)
(* wrongly formatted text, or None), get_query ends by raising ValueError. *)
C1_RaisesValueError ==
    (ret.op = "get_query" /\ ~args.all /\ ~strptime(args.image_date).ok)
        => ret.exc = "ValueError"

(* C2: a Database call whose statement fails lets no exception out,        *)
(* whether the handle is open, closed or None.                             *)
C2_NoExceptionPropagates == StatementFailed(ret) => ret.exc = "none"

(* C3: a Database call whose statement fails leaves the table as the       *)
(* instance saw it just before the call.                                   *)
C3_FailedCallKeepsView ==
    [][(DbCall /\ conn = "open" /\ StatementFailed(ret')) => View' = View]_vars

(* C4: whenever insert_db has ended, a connection it opened is closed.     *)
C4_ConnectionClosed == ret.op = "insert_db" => ret.conn # "open"

C4_Witness ==
    /\ ret.op = "insert_db"
    /\ ret.exc = "AttributeError"
    /\ ret.conn = "closed"
    /\ ret.out = <<MsgConnected, MsgClosed>>

(* C5: when an sqlite3.Error was raised inside insert_db (the failure line *)
(* was printed), insert_db returns normally.                               *)
C5_ErrorsSwallowed ==
    (ret.op = "insert_db" /\ Printed(MsgFailed, ret.out)) => ret.exc = "none"

\* image_date is eight digits naming a day of the calendar
IsCalendarText(s) ==
    /\ Len(s) = 8
    /\ \A k \in 1..8 : IsDigit(s[k])
    /\ LET y == 1000 * DigitVal(s[1]) + 100 * DigitVal(s[2])
                + 10 * DigitVal(s[3]) + DigitVal(s[4])
           m == 10 * DigitVal(s[5]) + DigitVal(s[6])
           d == 10 * DigitVal(s[7]) + DigitVal(s[8])
       IN  y >= 1 /\ m \in 1..12 /\ d \in 1..DaysInMonth(y, m)

\* YYYYMMDD rewritten as YYYY-MM-DD, character by character
IsoText(s) == Slice(s, 1, 4) \o <<"-">> \o Slice(s, 5, 6) \o <<"-">> \o Slice(s, 7, 8)

ExpectedQuery(a) ==
    IF a.all THEN SELECT_CMD("select_all")
    ELSE Format(SELECT_CMD(IF a.filtered_size THEN "select_images_filtered_size"
                           ELSE "select_images"), IsoText(a.image_date))

(* C6, as stated: with all the query is select_all whatever the date; else *)
(* for every valid YYYYMMDD date it is the template chosen by              *)
(* filtered_size with the date as YYYY-MM-DD in its placeholder.           *)
C6_QueryAsStated ==
    ret.op = "get_query" =>
        /\ args.all => (ret.exc = "none" /\ ret.val = ValText(ExpectedQuery(args)))
        /\ (~args.all /\ IsCalendarText(args.image_date))
               => (ret.exc = "none" /\ ret.val = ValText(ExpectedQuery(args)))

(* C6, amended: the same, for valid YYYYMMDD dates of the year 1000 or     *)
(* later.                                                                  *)
C6_QueryFromYear1000 ==
    ret.op = "get_query" =>
        /\ args.all => (ret.exc = "none" /\ ret.val = ValText(ExpectedQuery(args)))
        /\ (~args.all /\ IsCalendarText(args.image_date) /\ args.image_date[1] # "0")
               => (ret.exc = "none" /\ ret.val = ValText(ExpectedQuery(args)))

C6_Witness ==
    /\ ret.op = "get_query"
    /\ ~args.all
    /\ args.filtered_size
    /\ args.image_date = <<"2", "0", "2", "3", "0", "1", "0", "1">>
    /\ ret.val.text = <<"F", "=", "'", "2", "0", "2", "3", "-", "0", "1", "-", "0", "1", "'">>

(* C7: after an insert_db call that succeeded, its connection is closed    *)
(* and a connection opened on the file reads every row of df.              *)
C7_RowsDurable ==
    [][\A d \in Frames, f \in Faults, lc \in BOOLEAN :
           (insert_db(Frame(d), GoodPath, f, lc)
            /\ ret'.exc = "none" /\ ~Printed(MsgFailed, ret'.out))
               => (ret'.conn = "closed" /\ \A k \in 1..Len(d) : d[k] \in FreshRead')]_vars

C7_Witness ==
    /\ ret.op = "insert_db"
    /\ ret.out = <<MsgConnected, MsgInserted, MsgClosed>>
    /\ ret.conn = "closed"
    /\ Cardinality(file) = MaxRows

\* one entry, its value text valid SQL
SingleEntry == {<< <<ColN, f>> >> : f \in {FragAssign(k) : k \in Vals} \cup {FragIncr}}

(* C8: an update with one entry whose row identifier matches one row       *)
(* changes only that column of that row, and applying it again changes     *)
(* nothing more.                                                           *)
C8_OnlyThatCellOnce ==
    [][\A nv \in SingleEntry, pk \in PrimKeys :
           (/\ update(TABLE_NAME, nv, pk)
            /\ conn = "open"
            /\ ~StatementFailed(ret')
            /\ \E r \in View : r.i = NumVal(pk[2]))
           => LET again == Exec(View', UpdateQuery(TABLE_NAME, nv, pk))
              IN  /\ \A r \in View : r.i # NumVal(pk[2]) => r \in View'
                  /\ \A r \in View' : r.i # NumVal(pk[2]) => r \in View
                  /\ \E r \in View' : r.i = NumVal(pk[2])
                  /\ again.tbl = View']_vars

\* "<key> <value>" of each entry, a " , " between two of them
RECURSIVE JoinItems(_)
JoinItems(m) ==
    IF Len(m) = 1 THEN m[1][1] \o <<" ">> \o m[1][2]
    ELSE m[1][1] \o <<" ">> \o m[1][2] \o <<" ", ",", " ">> \o JoinItems(Tail(m))

(* C9: for a non-empty mapping the statement is "UPDATE <table> SET ",     *)
(* the "<col> <fragment>" items in order with a comma separator between    *)
(* them, then " WHERE <col> = <value>": the cut takes the trailing         *)
(* separator and nothing else.  For an empty mapping the cut takes "ET "   *)
(* of the keyword and the engine rejects the statement.                    *)
C9_StatementText ==
    ret.op = "update_query" =>
        LET head == <<"U", "P", "D", "A", "T", "E", " ">> \o args.table_name
                    \o <<" ", "S", "E", "T", " ">>
            tail == <<" ", "W", "H", "E", "R", "E", " ">> \o args.prim_key_id[1]
                    \o <<" ", "=", " ">> \o args.prim_key_id[2]
        IN  IF args.new_vals # <<>>
            THEN ret.val.text = head \o JoinItems(args.new_vals) \o tail
            ELSE /\ ret.val.text = Slice(head, 1, Len(head) - 3) \o tail
                 /\ Slice(head, Len(head) - 2, Len(head)) = <<"E", "T", " ">>
                 /\ ~Exec({}, ret.val.text).ok

C9_Witness ==
    /\ ret.op = "update_query"
    /\ Len(args.new_vals) = 2
    /\ args.new_vals[2][2] = <<>>
    /\ args.new_vals[1] = <<<<"n">>, <<"=", " ", "5">>>>
    /\ args.new_vals[2][1] = <<"i", "d">>
    /\ args.table_name = TABLE_NAME
    /\ args.prim_key_id = <<ColI, Str(1)>>
    /\ ret.val.text = <<"U", "P", "D", "A", "T", "E", " ", "t", " ", "S", "E", "T", " ",
                   "n", " ", "=", " ", "5", " ", ",", " ", "i", "d", " ",
                   " ", "W", "H", "E", "R", "E", " ", "i", " ", "=", " ", "1">>

(* C10: no call on a Database instance changes what a fresh connection     *)
(* reads, and while the instance holds uncommitted changes nothing does;   *)
(* the instance itself sees the rows it created, the value it assigned,    *)
(* and no row it deleted.                                                  *)
C10_NeverCommits ==
    [][/\ (DbCall \/ close_connection \/ (conn = "open" /\ inTxn))
              => FreshRead' = FreshRead
       /\ \A d \in Frames :
              (create(INSERT_STMT, d) /\ conn = "open" /\ ~StatementFailed(ret'))
                  => \A k \in 1..Len(d) : d[k] \in View'
       /\ \A pk \in PrimKeys :
              (delete(TABLE_NAME, pk) /\ conn = "open" /\ ~StatementFailed(ret'))
                  => ~\E r \in View' : r.i = NumVal(pk[2])
       /\ \A v \in Vals, pk \in PrimKeys :
              (update(TABLE_NAME, << <<ColN, FragAssign(v)>> >>, pk)
               /\ conn = "open" /\ ~StatementFailed(ret'))
                  => \A r \in View' : r.i = NumVal(pk[2]) => r.n = v]_vars

C10_Witness ==
    /\ conn = "open"
    /\ inTxn
    /\ ret.op \in {"create", "update", "delete"}
    /\ ret.out = <<>>
    /\ \E r \in View : r \notin FreshRead
    /\ \E r \in FreshRead : r \notin View

====
